---- MODULE Spec2Model ----
(***************************************************************************)
(* A model of ec2_enumerate_tag.py (an Ansible module, Python 2): the      *)
(* pattern parser, the membership test, the name allocator, and main(),    *)
(* which classifies a population of EC2 instances and tags the ones that   *)
(* do not carry a conforming value.                                        *)
(*                                                                         *)
(* A Python string is a sequence of one-character strings, so that         *)
(* parsing, zero-padding, int(), str() and the lexicographic max() of      *)
(* strings are computed as the code computes them.                         *)
(***************************************************************************)
EXTENDS Integers, Sequences, FiniteSets, TLC

VARIABLES call, ret, tags, run

vars == <<call, ret, tags, run>>

(***************************************************************************)
(* Bounds of the model.                                                    *)
(***************************************************************************)
\* longest raw string handed to parse_pattern alone
MaxRawLen == 6
\* longest digit literal of a pattern bound
MaxWidth == 2
\* longest list of names already taken
MaxTaken == 2
\* largest number of names requested
MaxRequested == 2
\* number of EC2 instances
NumInstances == 2

(***************************************************************************)
(* Characters and strings.                                                 *)
(***************************************************************************)
DigitSeq == <<"0", "1", "2", "3", "4", "5", "6", "7", "8", "9">>

Digits == {DigitSeq[i] : i \in 1..10}

\* the letters of the model's alphabet (a-zA-Z in the code)
Letters == {"h", "x"}

\* the character class [a-zA-Z0-9_-] of the hostname group
HostChars == Letters \cup Digits \cup {"_", "-"}

DigitVal(c) ==
    CASE c = "0" -> 0 [] c = "1" -> 1 [] c = "2" -> 2 [] c = "3" -> 3 [] c = "4" -> 4
      [] c = "5" -> 5 [] c = "6" -> 6 [] c = "7" -> 7 [] c = "8" -> 8 [] c = "9" -> 9

\* ord(c): the byte value Python compares strings by
Ord(c) ==
    CASE c = "-" -> 45
      [] c \in Digits -> 48 + DigitVal(c)
      [] c = ":" -> 58
      [] c = "[" -> 91
      [] c = "]" -> 93
      [] c = "_" -> 95
      [] c = "h" -> 104
      [] c = "x" -> 120

\* int(s) for a non-empty string of decimal digits
RECURSIVE IntOf(_)
IntOf(s) ==
    IF Len(s) = 0 THEN 0
    ELSE 10 * IntOf(SubSeq(s, 1, Len(s) - 1)) + DigitVal(s[Len(s)])

\* str(n) for n >= 0
RECURSIVE StrOf(_)
StrOf(n) ==
    IF n < 10 THEN <<DigitSeq[n + 1]>>
    ELSE StrOf(n \div 10) \o <<DigitSeq[(n % 10) + 1]>>

\* a < b as Python compares two byte strings
RECURSIVE StrLess(_, _)
StrLess(a, b) ==
    IF Len(b) = 0 THEN FALSE
    ELSE IF Len(a) = 0 THEN TRUE
    ELSE IF a[1] # b[1] THEN Ord(a[1]) < Ord(b[1])
    ELSE StrLess(Tail(a), Tail(b))

\* max(list) of a non-empty list of strings: the first maximal item
RECURSIVE MaxStr(_)
MaxStr(list) ==
    IF Len(list) = 1 THEN list[1]
    ELSE LET m == MaxStr(SubSeq(list, 1, Len(list) - 1))
         IN  IF StrLess(m, list[Len(list)]) THEN list[Len(list)] ELSE m

\* the number of consecutive characters of s, from index from, that are in set
RECURSIVE RunLen(_, _, _)
RunLen(s, from, set) ==
    IF from > Len(s) \/ s[from] \notin set THEN 0
    ELSE 1 + RunLen(s, from + 1, set)

\* all strings over alphabet of length lo..hi
StringsOver(alphabet, lo, hi) ==
    UNION {[1..n -> alphabet] : n \in lo..hi}

(***************************************************************************)
(* The pure functions of the module.                                       *)
(***************************************************************************)
NoDict == [hostname |-> <<>>, range_start |-> <<>>, range_end |-> <<>>]

\* range_pattern: one \d per character of the lower-bound literal, in a group
range_pattern(range_str) == [i \in 1..Len(range_str) |-> "\\d"]

\* re.match(hostname + range_pattern(...), s): anchored at the start of s only;
\* hostname holds no regex metacharacter, so it matches itself
ReMatch(hostname, group, s) ==
    LET h == Len(hostname)
        w == Len(group)
        matched == /\ Len(s) >= h + w
                   /\ SubSeq(s, 1, h) = hostname
                   /\ \A i \in 1..w : s[h + i] \in Digits
    IN  [matched |-> matched,
         group1  |-> IF matched THEN SubSeq(s, h + 1, h + w) ELSE <<>>]

\* parse_pattern: re.match of
\*   (?P<hostname>[a-zA-Z0-9_-]*)\[(?P<range_start>\d+):(?P<range_end>\d+)\]
\* anchored at the start of raw_pattern only. Each greedy run is followed by a
\* character outside its class, so backtracking finds no other match.
parse_pattern(raw_pattern) ==
    LET n == Len(raw_pattern)
        h == RunLen(raw_pattern, 1, HostChars)
        a == RunLen(raw_pattern, h + 2, Digits)
        b == RunLen(raw_pattern, h + a + 3, Digits)
        m == /\ h + 1 <= n /\ raw_pattern[h + 1] = "["
             /\ a >= 1
             /\ h + a + 2 <= n /\ raw_pattern[h + a + 2] = ":"
             /\ b >= 1
             /\ h + a + b + 3 <= n /\ raw_pattern[h + a + b + 3] = "]"
    IN  IF m
        THEN [raised |-> "",
              dict   |-> [hostname    |-> SubSeq(raw_pattern, 1, h),
                          range_start |-> SubSeq(raw_pattern, h + 2, h + a + 1),
                          range_end   |-> SubSeq(raw_pattern, h + a + 3, h + a + b + 2)]]
        ELSE [raised |-> "PatternError", dict |-> NoDict]

\* check_pattern(pattern, tag, taken); taken is not read
check_pattern(pattern, tag) ==
    LET p == parse_pattern(pattern)
        range_start == IntOf(p.dict.range_start)
        range_end == IntOf(p.dict.range_end)
        m == ReMatch(p.dict.hostname, range_pattern(p.dict.range_start), tag)
    IN  IF p.raised # "" THEN [raised |-> p.raised, value |-> FALSE]
        ELSE IF m.matched
        THEN [raised |-> "",
              value  |-> range_start <= IntOf(m.group1) /\ IntOf(m.group1) <= range_end]
        ELSE [raised |-> "", value |-> FALSE]

\* the while loop of fresh_names: "0" is put in front until the width is reached
RECURSIVE PadSuffix(_, _)
PadSuffix(suffix, width) ==
    IF Len(suffix) < width THEN PadSuffix(<<"0">> \o suffix, width) ELSE suffix

\* fresh_names reading the id of the last name of taken, not of the greatest
FreshStartLast(p, taken) ==
    IF Len(taken) > 0
    THEN IntOf(ReMatch(p.hostname, range_pattern(p.range_start),
                       taken[Len(taken)]).group1) + 1
    ELSE IntOf(p.range_start)

\* the id fresh_names starts from: range_start, or one past the id read from
\* max(taken), the lexicographically greatest name
FreshStart(p, taken) ==
    IF Len(taken) > 0
    THEN IntOf(ReMatch(p.hostname, range_pattern(p.range_start), MaxStr(taken)).group1) + 1
    ELSE IntOf(p.range_start)

\* the name fresh_names appends in iteration i (from 0)
FreshName(p, current_id, i) ==
    p.hostname \o PadSuffix(StrOf(current_id + i), Len(p.range_start))

\* fresh_names(pattern, taken, no_requested), taken a list of strings.
\* current_id is fixed before the loop; m is None, and m.group raises
\* AttributeError, when max(taken) does not match.
fresh_names(pattern, taken, no_requested) ==
    LET p == parse_pattern(pattern)
        current_id == FreshStart(p.dict, taken)
    IN  IF p.raised # "" THEN [raised |-> p.raised, names |-> <<>>]
        ELSE IF /\ Len(taken) > 0
                /\ ~ReMatch(p.dict.hostname, range_pattern(p.dict.range_start),
                            MaxStr(taken)).matched
        THEN [raised |-> "AttributeError", names |-> <<>>]
        ELSE [raised |-> "",
              names  |-> [i \in 1..no_requested |-> FreshName(p.dict, current_id, i - 1)]]

(***************************************************************************)
(* The inputs the functions are applied to.                                *)
(***************************************************************************)
\* the characters of the raw strings parse_pattern is tried on
RawChars == {"h", "1", "[", ":", "]"}

\* the digits of the bounds of a pattern
PatDigits == {"0", "1"}

\* the digits of a tag value
NameDigits == {"0", "1", "9"}

\* what follows the digits of a tag value: nothing, one more digit, other text
Tails == {<<>>, <<"0">>, <<"x">>}

RenderPattern(prefix, lo, hi) == prefix \o <<"[">> \o lo \o <<":">> \o hi \o <<"]">>

\* the well-formed patterns: h[lo:hi], with every digit literal up to MaxWidth
Patterns ==
    {RenderPattern(<<"h">>, lo, hi) :
        lo \in StringsOver(PatDigits, 1, MaxWidth),
        hi \in StringsOver(PatDigits, 1, MaxWidth)}

\* tag values: the right prefix, a wrong one or none, up to MaxWidth digits, a tail
Candidates ==
    {pre \o d \o tail : pre \in {<<>>, <<"h">>, <<"x">>},
                        d \in StringsOver(NameDigits, 0, MaxWidth),
                        tail \in Tails}

\* the names in use under pattern: the prefix and as many digits as the lower
\* bound is written with, or one digit more for a name that grew past the
\* width (fresh_names writes a longer name only for an id without a leading
\* 0); of these, the ones check_pattern classifies as conforming
Conforming(pattern) ==
    LET p == parse_pattern(pattern).dict
        blocks == [1..Len(p.range_start) -> NameDigits]
    IN  {c \in {p.hostname \o d : d \in blocks}
               \cup {p.hostname \o d \o <<"0">> : d \in {e \in blocks : e[1] # "0"}} :
            check_pattern(pattern, c).value}

NoCall == [op |-> "", pattern |-> <<>>, tag |-> <<>>, taken |-> <<>>, no_requested |-> 0]

ParseCall(raw) == [NoCall EXCEPT !.op = "parse_pattern", !.pattern = raw]

CheckCall(pat, c) == [NoCall EXCEPT !.op = "check_pattern", !.pattern = pat, !.tag = c]

FreshCall(pat, t) == [NoCall EXCEPT !.op = "fresh_names", !.pattern = pat, !.taken = t]

Pending == [done |-> FALSE, raised |-> "", dict |-> NoDict, value |-> FALSE, names |-> <<>>]

\* main() is not running in the specification of the functions
NoRuns == <<>>

NoTags == <<>>

InitFn ==
    /\ \/ \E n \in 0..MaxRawLen : \E raw \in [1..n -> RawChars] : call = ParseCall(raw)
       \/ \E pat \in Patterns, c \in Candidates : call = CheckCall(pat, c)
       \/ \E pat \in Patterns :
            \E k \in 0..MaxTaken : \E t \in [1..k -> Conforming(pat)] :
              call = FreshCall(pat, t)
    /\ ret = Pending
    /\ tags = NoTags
    /\ run = NoRuns

CallParsePattern ==
    /\ call.op = "parse_pattern" /\ ~ret.done
    /\ LET r == parse_pattern(call.pattern)
       IN  ret' = [Pending EXCEPT !.done = TRUE, !.raised = r.raised, !.dict = r.dict]
    /\ UNCHANGED <<call, tags, run>>

CallCheckPattern ==
    /\ call.op = "check_pattern" /\ ~ret.done
    /\ LET r == check_pattern(call.pattern, call.tag)
       IN  ret' = [Pending EXCEPT !.done = TRUE, !.raised = r.raised, !.value = r.value]
    /\ UNCHANGED <<call, tags, run>>

CallFreshNames ==
    /\ call.op = "fresh_names" /\ ~ret.done
    /\ \E n \in 0..MaxRequested :
         LET r == fresh_names(call.pattern, call.taken, n)
         IN  /\ call' = [call EXCEPT !.no_requested = n]
             /\ ret' = [Pending EXCEPT !.done = TRUE, !.raised = r.raised,
                                       !.names = r.names]
    /\ UNCHANGED <<tags, run>>

NextFn == CallParsePattern \/ CallCheckPattern \/ CallFreshNames

SpecFn == InitFn /\ [][NextFn]_vars

(***************************************************************************)
(* What the claims about the functions are stated with.                    *)
(***************************************************************************)
\* the pattern of the call, parsed
Desc == parse_pattern(call.pattern).dict

Lower(d) == IntOf(d.range_start)

Upper(d) == IntOf(d.range_end)

Width(d) == Len(d.range_start)

\* suffix is the decimal numeral of k, zero-padded on the left to width w:
\* digits only, of value k, at least w long, and longer only without a leading 0
IsPadded(suffix, k, w) ==
    /\ Len(suffix) >= w /\ Len(suffix) >= 1
    /\ \A i \in 1..Len(suffix) : suffix[i] \in Digits
    /\ IntOf(suffix) = k
    /\ Len(suffix) > w => suffix[1] # "0"

\* name is the prefix of pattern d followed by k padded to the width
IsNameOf(d, name, k) ==
    /\ Len(name) >= Len(d.hostname)
    /\ SubSeq(name, 1, Len(d.hostname)) = d.hostname
    /\ IsPadded(SubSeq(name, Len(d.hostname) + 1, Len(name)), k, Width(d))

\* the ids in use: the id the membership test reads from each taken name
UsedIds(d, taken) ==
    {IntOf(ReMatch(d.hostname, range_pattern(d.range_start), taken[j]).group1) :
        j \in 1..Len(taken)}

SetMax(set) == CHOOSE m \in set : \A x \in set : x <= m

\* the id the allocation is to start from: one past the greatest id in use,
\* or the lower bound when no id is in use
Start(d, taken) ==
    IF UsedIds(d, taken) = {} THEN Lower(d) ELSE SetMax(UsedIds(d, taken)) + 1

FreshReturned == call.op = "fresh_names" /\ ret.done

\* C1: no name fresh_names returns equals a name in taken, for taken names
\* that check_pattern classifies as conforming
C1_NoCollision ==
    (FreshReturned /\ Lower(Desc) <= Upper(Desc)) =>
        \A i \in 1..Len(ret.names), j \in 1..Len(call.taken) :
            ret.names[i] # call.taken[j]

C3_ExactMatch ==
    (call.op = "check_pattern" /\ ret.done) =>
        LET d == Desc
        IN  ret.value <=> \E k \in Lower(d)..Upper(d) : IsNameOf(d, call.tag, k)

\* C4: fresh_names fails, returning no name, when the last id it needs is
\* greater than the upper bound, and never returns a name with such an id
C4_Capacity ==
    (FreshReturned /\ call.no_requested >= 1) =>
        LET d == Desc
        IN  (/\ Lower(d) <= Upper(d)
             /\ Start(d, call.taken) + call.no_requested - 1 > Upper(d)) =>
                (ret.raised # "" /\ ret.names = <<>>)

\* raw is <prefix>[<digits>:<digits>] and nothing else
WellFormed(raw) ==
    \E h \in 0..Len(raw), a \in 1..Len(raw), b \in 1..Len(raw) :
        /\ Len(raw) = h + a + b + 3
        /\ \A i \in 1..h : raw[i] \in HostChars
        /\ raw[h + 1] = "["
        /\ \A i \in 1..a : raw[h + 1 + i] \in Digits
        /\ raw[h + a + 2] = ":"
        /\ \A i \in 1..b : raw[h + a + 2 + i] \in Digits
        /\ raw[h + a + b + 3] = "]"

\* C5: parse_pattern returns a descriptor for the strings of the form
\* <prefix>[<digits>:<digits>] and raises PatternError for every other string
C5_Grammar ==
    (call.op = "parse_pattern" /\ ret.done) =>
        (ret.raised = "" <=> WellFormed(call.pattern))

Instances == 1..NumInstances

\* two invocations of the module: one after the other, or interleaved
Runs == {"first", "second"}

\* the value of the target tag of an instance; present is "tag in instance.tags"
Absent == [present |-> FALSE, val |-> <<>>]

Value(v) == [present |-> TRUE, val |-> v]

\* the tag values an instance may carry before any run
InitialValues == {Absent, Value(<<"h", "1">>), Value(<<"h", "2">>), Value(<<"x">>)}

\* module.params["pattern"]: a valid pattern, and one without brackets
MainPatterns == {<<"h", "[", "1", ":", "2", "]">>, <<"h", "-", "0", "1">>}

\* the lists get_only_instances may return: the filters select the instances,
\* and the API fixes no order
InstanceLists ==
    {l \in UNION {[1..n -> Instances] : n \in 0..NumInstances} :
        \A i, j \in 1..Len(l) : i # j => l[i] # l[j]}

NewRun == [pc |-> "start", pattern |-> <<>>, instances |-> <<>>, pos |-> 0, idx |-> 0,
           valid_instances |-> <<>>, invalid_instances |-> <<>>,
           new_names |-> <<>>, outcome |-> "", changed |-> FALSE,
           added |-> <<>>, seen_added |-> 0]

\* the number of add_tag calls made so far, by all runs
AddedSoFar == Len(run["first"].added) + Len(run["second"].added)

Init ==
    /\ tags \in [Instances -> InitialValues]
    /\ run = [r \in Runs |-> NewRun]
    /\ call = NoCall
    /\ ret = Pending

\* lines 142-149: the parameters are read and get_only_instances returns the
\* instances with the tags they carry at this moment
Fetch(r) ==
    /\ run[r].pc = "start"
    /\ \E pattern \in MainPatterns, l \in InstanceLists :
         run' = [run EXCEPT ![r] =
                   [@ EXCEPT !.pc = "classify", !.pattern = pattern,
                             !.instances = [k \in 1..Len(l) |->
                                              [id |-> l[k], present |-> tags[l[k]].present,
                                               val |-> tags[l[k]].val]],
                             !.pos = 1, !.seen_added = AddedSoFar]]
    /\ UNCHANGED <<tags, call, ret>>

\* lines 135-136, 150-151: boto is missing, or get_only_instances raises
\* BotoServerError; fail_json ends the run
FetchFails(r) ==
    /\ run[r].pc = "start"
    /\ \E pattern \in MainPatterns :
         run' = [run EXCEPT ![r] =
                   [@ EXCEPT !.pc = "done", !.pattern = pattern, !.outcome = "fail_json"]]
    /\ UNCHANGED <<tags, call, ret>>

\* the classifying loop with the branches of line 161 exchanged
ClassifySwapped(r) ==
    /\ run[r].pc = "classify"
    /\ run[r].pos <= Len(run[r].instances)
    /\ LET instance == run[r].instances[run[r].pos]
           c == check_pattern(run[r].pattern, instance.val)
       IN  run' = [run EXCEPT ![r] =
                     IF instance.present
                     THEN IF c.raised # ""
                          THEN [@ EXCEPT !.pc = "done", !.outcome = c.raised]
                          ELSE IF ~c.value
                          THEN [@ EXCEPT !.pos = @ + 1,
                                         !.valid_instances =
                                            Append(@, [instance |-> instance.id,
                                                       val |-> Value(instance.val)])]
                          ELSE [@ EXCEPT !.pos = @ + 1,
                                         !.invalid_instances =
                                            Append(@, [instance |-> instance.id,
                                                       val |-> Value(instance.val)])]
                     ELSE [@ EXCEPT !.pos = @ + 1,
                                    !.invalid_instances =
                                       Append(@, [instance |-> instance.id, val |-> Absent])]]
    /\ UNCHANGED <<tags, call, ret>>

\* lines 158-169: one iteration of the classifying loop. check_pattern parses
\* the pattern; its PatternError is caught nowhere and ends the run
Classify(r) ==
    /\ run[r].pc = "classify"
    /\ run[r].pos <= Len(run[r].instances)
    /\ LET instance == run[r].instances[run[r].pos]
           c == check_pattern(run[r].pattern, instance.val)
       IN  run' = [run EXCEPT ![r] =
                     IF instance.present
                     THEN IF c.raised # ""
                          THEN [@ EXCEPT !.pc = "done", !.outcome = c.raised]
                          ELSE IF c.value
                          THEN [@ EXCEPT !.pos = @ + 1,
                                         !.valid_instances =
                                            Append(@, [instance |-> instance.id,
                                                       val |-> Value(instance.val)])]
                          ELSE [@ EXCEPT !.pos = @ + 1,
                                         !.invalid_instances =
                                            Append(@, [instance |-> instance.id,
                                                       val |-> Value(instance.val)])]
                     ELSE [@ EXCEPT !.pos = @ + 1,
                                    !.invalid_instances =
                                       Append(@, [instance |-> instance.id, val |-> Absent])]]
    /\ UNCHANGED <<tags, call, ret>>

\* lines 171-175, 187-188: no instance is invalid, exit_json(changed=False)
ExitUnchanged(r) ==
    /\ run[r].pc = "classify"
    /\ run[r].pos > Len(run[r].instances)
    /\ Len(run[r].invalid_instances) = 0
    /\ run' = [run EXCEPT ![r] = [@ EXCEPT !.pc = "done", !.outcome = "exit_json",
                                           !.changed = FALSE]]
    /\ UNCHANGED <<tags, call, ret>>

\* lines 175-176: fresh_names(pattern, valid_instances, invalid_instances_len).
\* fresh_names parses the pattern first (PatternError). valid_instances is a
\* list of dicts, not of names: when it is not empty, re.match is handed the
\* dict max() returns and raises TypeError.
Allocate(r) ==
    /\ run[r].pc = "classify"
    /\ run[r].pos > Len(run[r].instances)
    /\ Len(run[r].invalid_instances) > 0
    /\ LET f == fresh_names(run[r].pattern, <<>>, Len(run[r].invalid_instances))
       IN  run' = [run EXCEPT ![r] =
                     IF f.raised # ""
                     THEN [@ EXCEPT !.pc = "done", !.outcome = f.raised]
                     ELSE IF Len(run[r].valid_instances) > 0
                     THEN [@ EXCEPT !.pc = "done", !.outcome = "TypeError"]
                     ELSE [@ EXCEPT !.pc = "tag", !.idx = 0, !.new_names = f.names]]
    /\ UNCHANGED <<tags, call, ret>>

\* the tagging loop taking the last of the new names, not new_names[idx]
AddTagLastName(r) ==
    /\ run[r].pc = "tag"
    /\ LET idx == run[r].idx
           new_name == run[r].new_names[Len(run[r].new_names)]
           bad_instance == run[r].invalid_instances[idx + 1].instance
       IN  /\ tags' = [tags EXCEPT ![bad_instance] = Value(new_name)]
           /\ run' = [run EXCEPT ![r] =
                        [@ EXCEPT !.pc = "done", !.outcome = "NameError",
                                  !.added = Append(@, [instance |-> bad_instance,
                                                       name |-> new_name])]]
    /\ UNCHANGED <<call, ret>>

\* lines 177-185: the first iteration of the tagging loop (idx = 0). add_tag
\* writes the tag; building the tag_changes entry then reads old_name, which
\* is assigned nowhere: NameError ends the run, the loop never reaches a
\* second item and line 186, exit_json(changed=True), is never reached.
AddTag(r) ==
    /\ run[r].pc = "tag"
    /\ LET idx == run[r].idx
           new_name == run[r].new_names[idx + 1]
           bad_instance == run[r].invalid_instances[idx + 1].instance
       IN  /\ tags' = [tags EXCEPT ![bad_instance] = Value(new_name)]
           /\ run' = [run EXCEPT ![r] =
                        [@ EXCEPT !.pc = "done", !.outcome = "NameError",
                                  !.added = Append(@, [instance |-> bad_instance,
                                                       name |-> new_name])]]
    /\ UNCHANGED <<call, ret>>

\* line 180: add_tag raises BotoServerError, which is caught nowhere
AddTagFails(r) ==
    /\ run[r].pc = "tag"
    /\ run' = [run EXCEPT ![r] = [@ EXCEPT !.pc = "done", !.outcome = "BotoServerError"]]
    /\ UNCHANGED <<tags, call, ret>>

Next ==
    \E r \in Runs :
        \/ Fetch(r)
        \/ FetchFails(r)
        \/ Classify(r)
        \/ ExitUnchanged(r)
        \/ Allocate(r)
        \/ AddTag(r)
        \/ AddTagFails(r)

Spec == Init /\ [][Next]_vars

(***************************************************************************)
(* What the claims about main() are stated with.                           *)
(***************************************************************************)
PatternValid(r) == parse_pattern(run[r].pattern).raised = ""

\* the k-th instance run r received carried a value that check_pattern
\* classifies as conforming to the pattern of the run
ConformingAt(r, k) ==
    /\ run[r].instances[k].present
    /\ PatternValid(r)
    /\ check_pattern(run[r].pattern, run[r].instances[k].val).value

\* C6: no step of a run changes the tag of an instance whose value, as the run
\* received it, is classified as conforming to the pattern
C6_ConformingUntouched ==
    [][\A r \in Runs :
          run'[r] # run[r] =>
             \A k \in 1..Len(run[r].instances) :
                ConformingAt(r, k) =>
                   tags'[run[r].instances[k].id] = tags[run[r].instances[k].id]]_vars

\* a run that received a conforming and a non-conforming instance has ended,
\* and the conforming instance carries the value the run received
C6_Witness ==
    \E r \in Runs :
        /\ run[r].pc = "done"
        /\ Len(run[r].invalid_instances) > 0
        /\ \E k \in 1..Len(run[r].instances) :
              /\ ConformingAt(r, k)
              /\ tags[run[r].instances[k].id] = Value(run[r].instances[k].val)

\* C7: a run with an invalid pattern ends in a reported failure and has
\* tagged nothing
C7_InvalidPatternFails ==
    \A r \in Runs :
        (run[r].pc = "done" /\ ~PatternValid(r)) =>
            /\ run[r].outcome \in {"fail_json", "PatternError"}
            /\ run[r].added = <<>>

\* C8: a run alone, with a valid pattern, that classified n >= 1 instances as
\* invalid ends with one new name per invalid instance and the k-th invalid
\* instance carrying the k-th new name
C8_AllRenamedInOrder ==
    \A r \in Runs :
        (/\ run[r].pc = "done"
         /\ \A q \in Runs \ {r} : run[q].pc = "start"
         /\ PatternValid(r)
         /\ run[r].outcome # "fail_json"
         /\ Len(run[r].invalid_instances) >= 1) =>
            /\ Len(run[r].new_names) = Len(run[r].invalid_instances)
            /\ \A k \in 1..Len(run[r].invalid_instances) :
                  tags[run[r].invalid_instances[k].instance] = Value(run[r].new_names[k])

\* C9: two runs for the same pattern that both received their instances
\* before any tag was written, and both wrote a tag, wrote the same name:
\* neither saw the name the other was about to use
C9_SameSnapshotSameName ==
    \A r, q \in Runs :
        (/\ r # q
         /\ run[r].pattern = run[q].pattern
         /\ run[r].seen_added = 0 /\ run[q].seen_added = 0
         /\ run[r].added # <<>> /\ run[q].added # <<>>) =>
            run[r].added[1].name = run[q].added[1].name

\* two runs for the same pattern received their instances before any tag was
\* written, and now two different instances carry the same fresh name
C9_Witness ==
    \E r, q \in Runs :
        /\ r # q
        /\ run[r].pattern = run[q].pattern
        /\ run[r].seen_added = 0 /\ run[q].seen_added = 0
        /\ run[r].added # <<>> /\ run[q].added # <<>>
        /\ run[r].added[1].instance # run[q].added[1].instance
        /\ tags[run[r].added[1].instance] = Value(run[r].added[1].name)
        /\ tags[run[q].added[1].instance] = Value(run[r].added[1].name)

====
